---- MODULE Spec2Model ----
(***************************************************************************)
(* Budget tracker: the ledger (transactions table), the account balances   *)
(* and the screens that change them.  Every remote call of a handler is    *)
(* one step; handlers interleave between their awaits.                     *)
(***************************************************************************)
EXTENDS Integers, Sequences, FiniteSets, TLC

(***************************************************************************)
(* Bounds of the model.                                                    *)
(***************************************************************************)
MaxAcc == 1
MaxTx == 2
MaxDel == 2
MaxAdjust == 2
MantBits == 3
MaxExp == 4
MaxRep == 2
MaxRows == 2
MaxBudgets == 2
MaxSignUps == 3
MaxCreated == 1

AccIds == 1..MaxAcc
TxIds == 1..MaxTx
Slots == 1..MaxDel
Types == {"income", "expense"}

(***************************************************************************)
(* JavaScript numbers.  A Number is a binary floating-point value: a       *)
(* mantissa of MantBits bits (53 in the engine) times a power of two,      *)
(* rounded to nearest, ties to even.  Values are counted in units of the   *)
(* smallest representable step.  NaN, null and undefined are values too.   *)
(***************************************************************************)
Num(v) == [k |-> "num", v |-> v]
NaN == [k |-> "nan", v |-> 0]
Null == [k |-> "null", v |-> 0]
Undefined == [k |-> "undefined", v |-> 0]

Pow2(n) == 2 ^ n

Abs(x) == IF x < 0 THEN 0 - x ELSE x

\* The exponent of the binade that holds magnitude m.
ExpOf(m) == CHOOSE e \in 0..MaxExp :
              /\ m < Pow2(MantBits + e)
              /\ (e = 0 \/ m >= Pow2(MantBits + e - 1))

\* Round a magnitude to MantBits significant bits, ties to even.
RoundMag(m) ==
  LET e == ExpOf(m)
      q == m \div Pow2(e)
      r == m % Pow2(e)
  IN  IF e = 0 THEN m
      ELSE IF 2 * r > Pow2(e) \/ (2 * r = Pow2(e) /\ q % 2 = 1)
           THEN (q + 1) * Pow2(e)
           ELSE q * Pow2(e)

FRound(x) == IF x < 0 THEN 0 - RoundMag(0 - x) ELSE RoundMag(x)

\* Number(x): null converts to 0, undefined to NaN.
NumberOf(x) == IF x.k = "null" THEN Num(0)
               ELSE IF x.k = "undefined" THEN NaN
               ELSE x

\* a + b and a - b on Numbers.
FAdd(a, b) == IF a.k = "nan" \/ b.k = "nan" THEN NaN ELSE Num(FRound(a.v + b.v))
FSub(a, b) == IF a.k = "nan" \/ b.k = "nan" THEN NaN ELSE Num(FRound(a.v - b.v))

\* A Number written into a JSON body: NaN is serialized as null.
ToJson(x) == IF x.k = "nan" \/ x.k = "undefined" THEN Null ELSE x

(***************************************************************************)
(* parseFloat on a text, given as the sequence of its characters: leading  *)
(* blanks are skipped, an optional sign is read, then the longest run of   *)
(* decimal digits; what follows is ignored.  No digit: NaN.  The decimal   *)
(* value is rounded to the nearest Number.                                 *)
(***************************************************************************)
Digits == <<"0", "1", "2", "3", "4", "5", "6", "7", "8", "9">>
IsDigit(c) == \E i \in 1..Len(Digits) : Digits[i] = c
DigitVal(c) == (CHOOSE i \in 1..Len(Digits) : Digits[i] = c) - 1

RECURSIVE SkipBlanks(_)
SkipBlanks(s) == IF s # <<>> /\ Head(s) = " " THEN SkipBlanks(Tail(s)) ELSE s

\* The value of the longest digit prefix of s, continuing from acc.
RECURSIVE DigitRun(_, _)
DigitRun(s, acc) == IF s # <<>> /\ IsDigit(Head(s))
                    THEN DigitRun(Tail(s), 10 * acc + DigitVal(Head(s)))
                    ELSE acc

ParseFloat(text) ==
  LET s == SkipBlanks(text)
      neg == s # <<>> /\ Head(s) = "-"
      body == IF s # <<>> /\ Head(s) \in {"-", "+"} THEN Tail(s) ELSE s
  IN  IF body = <<>> \/ ~IsDigit(Head(body)) THEN NaN
      ELSE IF neg THEN Num(0 - RoundMag(DigitRun(body, 0)))
      ELSE Num(RoundMag(DigitRun(body, 0)))

(***************************************************************************)
(* Dates.  A date text "y-m-d" is the sequence <<y, m, d>>; the empty text *)
(* is <<>> and a text that has no such shape is <<0>>.  The date column of *)
(* the store accepts calendar dates only.                                  *)
(***************************************************************************)
Today == <<2026, 11, 2>>

DaysIn(y, m) == IF m \in {4, 6, 9, 11} THEN 30
                ELSE IF m = 2
                     THEN IF (y % 4 = 0 /\ y % 100 # 0) \/ y % 400 = 0 THEN 29 ELSE 28
                     ELSE 31

DateValid(d) == /\ Len(d) = 3
                /\ d[2] \in 1..12
                /\ d[3] \in 1..DaysIn(d[1], d[2])

(***************************************************************************)
(* The store: the accounts and transactions tables (functions from the ids *)
(* of the rows that exist), and the categories seeded at sign-up.          *)
(***************************************************************************)
categoriesTbl == ("Salary" :> [type |-> "income"]) @@
                 ("Food & Dining" :> [type |-> "expense"])
CatIds == DOMAIN categoriesTbl
NoCategory == ""
NoAccount == 0

VARIABLES
  accountsTbl,       \* accounts: id -> [balance, is_active]
  transactionsTbl,   \* transactions: id -> [account_id, category_id, amount, type, date]
  nextTx,            \* the id the store gives the next inserted transaction
  mounted,           \* the add-transaction screen is on top of the stack
  type, amount, description, date,
  selectedAccount, selectedCategory,
  accounts, categories,
  loading, error,
  accFetches,        \* fetchAccounts calls in flight (each with the selectedAccount == null it closed over)
  catFetches,        \* fetchCategories calls in flight (each with the type it closed over)
  sub,               \* the handleSubmit call of the screen: position and locals
  transactions,      \* the list of the transactions screen
  txFetch,           \* a fetchTransactions call is in flight
  del,               \* the handleDeleteTransaction calls: slot -> position and locals
  initial,           \* history: the balance each account was created with
  rounded,           \* history: some balance arithmetic so far was inexact
  last,              \* history: the latest creation and the balance it found
  trip,              \* history: the latest creation undone by the next operation
  clobbered,         \* history: a balance was written while another call held a read of it
  adj,               \* history: per transaction, the balance writes applied for it
  now,               \* the device's clock: local date and hour of the day
  tz,                \* the device's time zone: hours ahead of UTC
  selectedPeriod,    \* reports screen: 'week', 'month' or 'year'
  totalIncome, totalExpense,
  categorySpending,  \* reports screen: the category breakdown, largest first
  monthlyData,       \* reports screen: the bars of the year view
  repLoading,
  rep,               \* the fetchReportData calls in flight (position and period)
  shown,             \* history: the period of the call whose totals are on screen
  budgetsTbl,        \* budgets: id -> [category_id, amount, period]
  nextBudget,        \* the id the store gives the next inserted budget
  budgets,           \* budgets screen: id -> the budget with its spent
  bLoading,
  bFetch,            \* the fetchBudgets calls in flight (position and the rows read)
  spentOk,           \* history: the budgets on screen whose spent query succeeded
  authUsers,         \* the identities of the auth service: id -> email
  profilesTbl,       \* profiles: the rows [id, full_name, currency]
  ownedCategories,   \* categories: the rows [user_id, name, type, icon, color, is_system]
  route,             \* the screen on top: 'sign-up' or 'tabs'
  su,                \* the sign-up screen: its state and the handleSignUp call in flight
  seedLog            \* history: per signUp call that got an identity, what it did and returned

storeVars == <<accountsTbl, transactionsTbl, nextTx>>
formVars == <<type, amount, description, date, selectedAccount, selectedCategory,
              accounts, categories, accFetches, catFetches>>
addVars == <<mounted, formVars, loading, error, sub>>
listVars == <<transactions, txFetch, del>>
histVars == <<initial, rounded, last, trip, clobbered, adj>>
ledgerVars == <<storeVars, addVars, listVars, histVars>>
clockVars == <<now, tz>>
reportVars == <<selectedPeriod, totalIncome, totalExpense, categorySpending, monthlyData,
                repLoading, rep, shown>>
budgetVars == <<budgetsTbl, nextBudget, budgets, bLoading, bFetch, spentOk>>
authVars == <<authUsers, profilesTbl, ownedCategories, route, su, seedLog>>
viewVars == <<clockVars, reportVars, budgetVars, authVars>>
exceptReports == <<ledgerVars, clockVars, budgetVars, authVars>>
exceptBudgets == <<ledgerVars, clockVars, reportVars, authVars>>
exceptAuth == <<ledgerVars, clockVars, reportVars, budgetVars>>
vars == <<ledgerVars, viewVars>>

IdleSub == [pc |-> "idle", amountNum |-> 0, type |-> "expense", account |-> NoAccount,
            category |-> NoCategory, date |-> <<>>, bal |-> Undefined,
            calls |-> <<>>, tx |-> 0, updated |-> FALSE, err |-> ""]
IdleDel == [pc |-> "idle", tx |-> [id |-> 0, type |-> "expense", amount |-> 0],
            acc |-> NoAccount, bal |-> Undefined]

NoTrip == [tx |-> 0, acc |-> NoAccount, before |-> Undefined, after |-> Undefined]

\* No handleDeleteTransaction call is in flight.
DelQuiet == \A s \in Slots : del[s].pc = "idle"

\* A store a session can start from: no account yet, or one archived account
\* (a row whose is_active is false).
Archived == MaxAcc + 1
InitialStores == {<<>>, (Archived :> [balance |-> Num(0), is_active |-> FALSE])}

NothingShown == [period |-> "none", monthly |-> "none"]

\* The reports screen as mounted, before its effect has run.
ReportsIdle ==
  /\ selectedPeriod = "month"
  /\ totalIncome = Num(0) /\ totalExpense = Num(0)
  /\ categorySpending = <<>> /\ monthlyData = <<>>
  /\ repLoading = TRUE
  /\ rep = {}
  /\ shown = NothingShown

\* No budget in the store; the budgets screen as mounted, before its effect
\* has run.
BudgetsIdle ==
  /\ budgetsTbl = <<>> /\ nextBudget = 1
  /\ budgets = <<>>
  /\ bLoading = TRUE
  /\ bFetch = {}
  /\ spentOk = {}

\* The sign-up screen as mounted.
SignUpState == [pc |-> "idle", fullName |-> "", email |-> "", password |-> <<>>,
                loading |-> FALSE, error |-> "", user |-> 0, authError |-> "none",
                call |-> 0]

\* One owner signed in, on the tabs; nobody has signed up on this device.
AuthIdle ==
  /\ authUsers = <<>> /\ profilesTbl = <<>> /\ ownedCategories = <<>>
  /\ route = "tabs"
  /\ su = SignUpState
  /\ seedLog = <<>>

\* The clock at the date the form shows, in UTC, and the other screens idle.
ViewIdle ==
  /\ now = [date |-> Today, hour |-> 10] /\ tz = 0
  /\ ReportsIdle
  /\ BudgetsIdle
  /\ AuthIdle

\* The screens of the ledger as mounted, on one of the given stores.
LedgerInit(stores, ledgers) ==
  /\ accountsTbl \in stores
  /\ transactionsTbl \in ledgers
  /\ nextTx = Cardinality(DOMAIN transactionsTbl) + 1
  /\ mounted = FALSE
  /\ type = "expense" /\ amount = <<>> /\ description = "" /\ date = Today
  /\ selectedAccount = NoAccount /\ selectedCategory = NoCategory
  /\ accounts = {} /\ categories = {}
  /\ loading = FALSE /\ error = ""
  /\ accFetches = {} /\ catFetches = {}
  /\ sub = IdleSub
  /\ transactions = {} /\ txFetch = TRUE
  /\ del = [s \in Slots |-> IdleDel]
  /\ initial = [a \in DOMAIN accountsTbl |-> accountsTbl[a].balance]
  /\ rounded = FALSE
  /\ last = NoTrip
  /\ trip = NoTrip
  /\ clobbered = FALSE
  /\ adj = [t \in TxIds |-> [c |-> 0, d |-> 0]]

InitWith(stores) == LedgerInit(stores, {<<>>}) /\ ViewIdle

\* A new user: no account yet.
Init == InitWith({<<>>})

Remove(tbl, id) == [i \in DOMAIN tbl \ {id} |-> tbl[i]]

(***************************************************************************)
(* Settings: AccountModal.handleSave.  The row is inserted with the parsed *)
(* balance and the column default is_active = true.                        *)
(***************************************************************************)
AccountModal_handleSave(name, balance, ok) ==
  /\ AccIds \ DOMAIN accountsTbl # {}
  /\ IF name = "" \/ balance = <<>> \/ ~ok
     THEN UNCHANGED <<accountsTbl, initial>>
     ELSE LET a == CHOOSE i \in AccIds \ DOMAIN accountsTbl :
                     \A j \in AccIds \ DOMAIN accountsTbl : i <= j
              row == [balance |-> ToJson(ParseFloat(balance)), is_active |-> TRUE]
          IN  /\ accountsTbl' = accountsTbl @@ (a :> row)
              /\ initial' = initial @@ (a :> row.balance)
  /\ UNCHANGED <<transactionsTbl, nextTx, addVars, listVars, rounded, last, trip, clobbered, adj>>
  /\ UNCHANGED viewVars

(***************************************************************************)
(* The add-transaction screen.                                             *)
(***************************************************************************)
\* router.push('/add-transaction'): the screen mounts with its initial state
\* and its effect starts both fetches.
OpenAddTransaction ==
  /\ ~mounted
  /\ mounted' = TRUE
  /\ type' = "expense" /\ amount' = <<>> /\ description' = "" /\ date' = Today
  /\ selectedAccount' = NoAccount /\ selectedCategory' = NoCategory
  /\ accounts' = {} /\ categories' = {}
  /\ loading' = FALSE /\ error' = ""
  /\ accFetches' = {TRUE} /\ catFetches' = {"expense"}
  /\ sub' = IdleSub
  /\ UNCHANGED <<storeVars, listVars, histVars>>
  /\ UNCHANGED viewVars

\* router.back(): the screen leaves the stack and its state is discarded
\* (what it showed last, loading and error, is kept for the record).
Unmount ==
  /\ mounted' = FALSE
  /\ type' = "expense" /\ amount' = <<>> /\ description' = "" /\ date' = Today
  /\ selectedAccount' = NoAccount /\ selectedCategory' = NoCategory
  /\ accounts' = {} /\ categories' = {}
  /\ accFetches' = {} /\ catFetches' = {}

\* The rows of the table with the filter on is_active left out.
ActiveAccounts_all == DOMAIN accountsTbl

\* The rows fetchAccounts asks for.
ActiveAccounts == {a \in DOMAIN accountsTbl : accountsTbl[a].is_active}

\* A fetchAccounts call returns.  selWasNull is the selectedAccount == null of
\* the render it closed over; first is data[0] (the query states no order).
fetchAccounts(selWasNull, ok, first) ==
  /\ mounted /\ selWasNull \in accFetches
  /\ accFetches' = accFetches \ {selWasNull}
  /\ IF ok /\ ActiveAccounts # {}
     THEN /\ first \in ActiveAccounts
          /\ accounts' = ActiveAccounts
          /\ selectedAccount' = IF selWasNull THEN first ELSE selectedAccount
     ELSE /\ first = NoAccount
          /\ UNCHANGED <<accounts, selectedAccount>>
  /\ UNCHANGED <<storeVars, mounted, type, amount, description, date, selectedCategory,
                 categories, catFetches, loading, error, sub, listVars, histVars>>
  /\ UNCHANGED viewVars

\* A fetchCategories call returns; ty is the type of the render it closed over.
fetchCategories(ty, ok) ==
  /\ mounted /\ ty \in catFetches
  /\ catFetches' = catFetches \ {ty}
  /\ categories' = IF ok THEN {c \in CatIds : categoriesTbl[c].type = ty} ELSE categories
  /\ UNCHANGED <<storeVars, mounted, type, amount, description, date, selectedAccount,
                 selectedCategory, accounts, accFetches, loading, error, sub,
                 listVars, histVars>>
  /\ UNCHANGED viewVars

\* A press on a type button; the effect runs again when the type changed.
SetType(ty) ==
  /\ mounted
  /\ type' = ty
  /\ selectedCategory' = NoCategory
  /\ IF ty # type
     THEN /\ accFetches' = accFetches \cup {selectedAccount = NoAccount}
          /\ catFetches' = catFetches \cup {ty}
     ELSE UNCHANGED <<accFetches, catFetches>>
  /\ UNCHANGED <<storeVars, mounted, amount, description, date, selectedAccount,
                 accounts, categories, loading, error, sub, listVars, histVars>>
  /\ UNCHANGED viewVars

SetAmount(text) ==
  /\ mounted /\ amount' = text
  /\ UNCHANGED <<storeVars, mounted, type, description, date, selectedAccount,
                 selectedCategory, accounts, categories, accFetches, catFetches,
                 loading, error, sub, listVars, histVars>>
  /\ UNCHANGED viewVars

SetDescription(text) ==
  /\ mounted /\ description' = text
  /\ UNCHANGED <<storeVars, mounted, type, amount, date, selectedAccount,
                 selectedCategory, accounts, categories, accFetches, catFetches,
                 loading, error, sub, listVars, histVars>>
  /\ UNCHANGED viewVars

SetDate(text) ==
  /\ mounted /\ date' = text
  /\ UNCHANGED <<storeVars, mounted, type, amount, description, selectedAccount,
                 selectedCategory, accounts, categories, accFetches, catFetches,
                 loading, error, sub, listVars, histVars>>
  /\ UNCHANGED viewVars

\* A press on a row of the account picker, which lists `accounts`.
SetSelectedAccount(a) ==
  /\ mounted /\ a \in accounts /\ selectedAccount' = a
  /\ UNCHANGED <<storeVars, mounted, type, amount, description, date,
                 selectedCategory, accounts, categories, accFetches, catFetches,
                 loading, error, sub, listVars, histVars>>
  /\ UNCHANGED viewVars

\* A press on a row of the category picker, which lists `categories`.
SetSelectedCategory(c) ==
  /\ mounted /\ c \in categories /\ selectedCategory' = c
  /\ UNCHANGED <<storeVars, mounted, type, amount, description, date,
                 selectedAccount, accounts, categories, accFetches, catFetches,
                 loading, error, sub, listVars, histVars>>
  /\ UNCHANGED viewVars

(***************************************************************************)
(* handleSubmit: the validation and then, one remote call each, the insert *)
(* of the transaction, the read of the balance and its write.              *)
(***************************************************************************)
\* The amount check with the comparison against zero left out.
AmountInvalid_nanOnly(amountNum) == amountNum.k = "nan"

\* isNaN(amountNum) || amountNum <= 0
AmountInvalid(amountNum) == amountNum.k = "nan" \/ amountNum.v <= 0

\* The submit button left enabled while a submission runs.
SubmitDisabled_never == FALSE

\* disabled={loading} of the submit button.
SubmitDisabled == loading

\* The body of handleSubmit up to its first await, on the fields the render
\* it belongs to shows.
SubmitWith(ty, amt, desc, dt, acc, cat) ==
  /\ mounted /\ ~SubmitDisabled
  /\ IF amt = <<>> \/ desc = "" \/ acc = NoAccount
     THEN /\ error' = "Please fill in all required fields"
          /\ sub' = [IdleSub EXCEPT !.pc = "rejected"]
          /\ UNCHANGED loading
     ELSE IF AmountInvalid(ParseFloat(amt))
     THEN /\ error' = "Please enter a valid amount"
          /\ sub' = [IdleSub EXCEPT !.pc = "rejected"]
          /\ UNCHANGED loading
     ELSE /\ nextTx <= MaxTx
          /\ loading' = TRUE
          /\ error' = ""
          /\ sub' = [IdleSub EXCEPT !.pc = "insert",
                                    !.amountNum = ParseFloat(amt).v,
                                    !.type = ty,
                                    !.account = acc,
                                    !.category = cat,
                                    !.date = dt]
  /\ UNCHANGED <<storeVars, mounted, formVars, listVars, histVars>>
  /\ UNCHANGED viewVars

\* A press on the submit button (disabled while loading).
handleSubmit ==
  SubmitWith(type, amount, description, date, selectedAccount, selectedCategory)

\* The same press with the typing that precedes it folded in: the type, the
\* amount and the description are the press's inputs, the account is the one
\* the screen has selected, the category and the date are left as mounted.
TypeAndSubmit(ty, amt, desc) ==
  SubmitWith(ty, amt, desc, Today, selectedAccount, NoCategory)

\* The store refuses a value of the date column that is no calendar date.
DateError == "invalid input syntax for type date"

\* An error text of the screen's own in place of the store's.
InsertErrorShown_generic(e) == "Something went wrong"

\* setError(insertError.message)
InsertErrorShown(e) == e

\* The insert returns; err is the failure of the call, "" when it went through.
SubmitInsert(err) ==
  /\ sub.pc = "insert"
  /\ LET e == IF err # "" THEN err
              ELSE IF ~DateValid(sub.date) THEN DateError ELSE ""
         row == [account_id |-> sub.account, category_id |-> sub.category,
                 amount |-> sub.amountNum, type |-> sub.type, date |-> sub.date]
     IN  IF e # ""
         THEN /\ error' = InsertErrorShown(e)
              /\ loading' = FALSE
              /\ sub' = [IdleSub EXCEPT !.pc = "failed", !.err = e,
                                        !.calls = Append(sub.calls, "insert")]
              /\ UNCHANGED <<transactionsTbl, nextTx>>
         ELSE /\ transactionsTbl' = transactionsTbl @@ (nextTx :> row)
              /\ nextTx' = nextTx + 1
              /\ sub' = [sub EXCEPT !.pc = "select", !.tx = nextTx,
                                    !.calls = Append(@, "insert")]
              /\ UNCHANGED <<error, loading>>
  /\ UNCHANGED <<accountsTbl, mounted, formVars, listVars, histVars>>
  /\ UNCHANGED viewVars

\* select('balance').eq('id', id).single(), then .data?.balance
SelectBalance(id, ok) ==
  IF ok /\ id \in DOMAIN accountsTbl THEN accountsTbl[id].balance ELSE Undefined

\* The read of the balance returns.
SubmitSelect(ok) ==
  /\ sub.pc = "select"
  /\ sub' = [sub EXCEPT !.pc = "update", !.bal = SelectBalance(sub.account, ok),
                        !.calls = Append(@, "select")]
  /\ UNCHANGED <<storeVars, mounted, formVars, loading, error, listVars, histVars>>
  /\ UNCHANGED viewVars

\* The Number arithmetic bal + amt (plus) or bal - amt differs from the exact result.
Inexact(plus, bal, amt) ==
  LET b == NumberOf(bal)
      x == IF plus THEN b.v + amt ELSE b.v - amt
  IN  b.k = "nan" \/ FRound(x) # x

\* A handleDeleteTransaction call other than s has read the balance of
\* account a and not yet written it.
HeldByDelete(a, s) ==
  \E r \in Slots \ {s} : del[r].pc \in {"lookup2", "update"} /\ del[r].acc = a

\* newBalance with the type of the transaction ignored.
CreateBalance_alwaysAdds(ty, bal, amt) == FAdd(NumberOf(bal), Num(amt))

\* newBalance of handleSubmit.
CreateBalance(ty, bal, amt) ==
  IF ty = "income" THEN FAdd(NumberOf(bal), Num(amt)) ELSE FSub(NumberOf(bal), Num(amt))

\* The write lands although the call is reported as failed.
UpdateBalance_landsAnyway(id, newBalance, ok) ==
  IF id \in DOMAIN accountsTbl
  THEN [accountsTbl EXCEPT ![id].balance = ToJson(newBalance)]
  ELSE accountsTbl

\* The write with the filter on id left out: every row gets the balance.
UpdateBalance_everyRow(id, newBalance, ok) ==
  IF ok /\ id \in DOMAIN accountsTbl
  THEN [a \in DOMAIN accountsTbl |-> [accountsTbl[a] EXCEPT !.balance = ToJson(newBalance)]]
  ELSE accountsTbl

\* update({ balance }).eq('id', id): the table after the call.
UpdateBalance(id, newBalance, ok) ==
  IF ok /\ id \in DOMAIN accountsTbl
  THEN [accountsTbl EXCEPT ![id].balance = ToJson(newBalance)]
  ELSE accountsTbl

\* The write of the balance returns; its result is not looked at.  Then
\* setLoading(false) and router.back().
SubmitUpdate(ok) ==
  /\ sub.pc = "update"
  /\ accountsTbl' = UpdateBalance(sub.account, CreateBalance(sub.type, sub.bal, sub.amountNum), ok)
  /\ loading' = FALSE
  /\ sub' = [IdleSub EXCEPT !.pc = "done", !.tx = sub.tx, !.updated = ok,
                             !.calls = Append(sub.calls, "update")]
  /\ rounded' = (rounded \/ Inexact(sub.type = "income", sub.bal, sub.amountNum))
  /\ last' = IF DelQuiet
             THEN [tx |-> sub.tx, acc |-> sub.account, before |-> sub.bal, after |-> Undefined]
             ELSE NoTrip
  /\ trip' = NoTrip
  /\ clobbered' = (clobbered \/ (ok /\ HeldByDelete(sub.account, 0)))
  /\ adj' = IF ok /\ sub.account \in DOMAIN accountsTbl
            THEN [adj EXCEPT ![sub.tx].c = @ + 1] ELSE adj
  /\ Unmount
  /\ UNCHANGED <<transactionsTbl, nextTx, error, listVars, initial>>
  /\ UNCHANGED viewVars

(***************************************************************************)
(* The transactions screen.                                                *)
(***************************************************************************)
\* A fetchTransactions call returns.
fetchTransactions(ok) ==
  /\ txFetch
  /\ txFetch' = FALSE
  /\ transactions' =
       IF ok THEN {[id |-> t, type |-> transactionsTbl[t].type,
                    amount |-> transactionsTbl[t].amount] : t \in DOMAIN transactionsTbl}
       ELSE transactions
  /\ UNCHANGED <<storeVars, addVars, del, histVars>>
  /\ UNCHANGED viewVars

\* Pull to refresh.
onRefresh ==
  /\ ~mounted /\ ~txFetch
  /\ txFetch' = TRUE
  /\ UNCHANGED <<storeVars, addVars, transactions, del, histVars>>
  /\ UNCHANGED viewVars

\* A press on the trash icon of a row of the list; the call takes the first
\* free slot.  A row whose deletion has adjusted the balance MaxAdjust times
\* is not pressed again.
handleDeleteTransaction(s, t) ==
  /\ ~mounted
  /\ del[s].pc = "idle"
  /\ \A r \in Slots : r < s => del[r].pc # "idle"
  /\ adj[t.id].d + Cardinality({r \in Slots : del[r].pc # "idle" /\ del[r].tx.id = t.id})
       < MaxAdjust
  /\ t \in transactions
  /\ del' = [del EXCEPT ![s] = [IdleDel EXCEPT !.pc = "lookup", !.tx = t]]
  /\ UNCHANGED <<storeVars, addVars, transactions, txFetch, histVars>>
  /\ UNCHANGED viewVars

\* select('account_id').eq('id', transactionId).single(), then .data?.account_id
SelectAccountId(id, ok) ==
  IF ok /\ id \in DOMAIN transactionsTbl THEN transactionsTbl[id].account_id ELSE NoAccount

\* The first lookup of the transaction's account returns.
DeleteLookup(s, ok) ==
  /\ del[s].pc = "lookup"
  /\ del' = [del EXCEPT ![s].pc = "select", ![s].acc = SelectAccountId(del[s].tx.id, ok)]
  /\ UNCHANGED <<storeVars, addVars, transactions, txFetch, histVars>>
  /\ UNCHANGED viewVars

\* The read of the account returns: accountData, or null and no adjustment.
DeleteSelect(s, ok) ==
  /\ del[s].pc = "select"
  /\ IF ok /\ del[s].acc \in DOMAIN accountsTbl
     THEN del' = [del EXCEPT ![s].pc = "lookup2", ![s].bal = accountsTbl[del[s].acc].balance]
     ELSE del' = [del EXCEPT ![s].pc = "remove"]
  /\ UNCHANGED <<storeVars, addVars, transactions, txFetch, histVars>>
  /\ UNCHANGED viewVars

\* The second lookup of the transaction's account, for the filter of the update.
DeleteLookup2(s, ok) ==
  /\ del[s].pc = "lookup2"
  /\ del' = [del EXCEPT ![s].pc = "update", ![s].acc = SelectAccountId(del[s].tx.id, ok)]
  /\ UNCHANGED <<storeVars, addVars, transactions, txFetch, histVars>>
  /\ UNCHANGED viewVars

\* handleDeleteTransaction applying the adjustment of a creation again.
DeleteBalance_sameSign(ty, bal, amt) ==
  IF ty = "income" THEN FAdd(NumberOf(bal), Num(amt)) ELSE FSub(NumberOf(bal), Num(amt))

\* newBalance of handleDeleteTransaction.
DeleteBalance(ty, bal, amt) ==
  IF ty = "income" THEN FSub(NumberOf(bal), Num(amt)) ELSE FAdd(NumberOf(bal), Num(amt))

\* The write of the balance returns.
DeleteUpdate(s, ok) ==
  /\ del[s].pc = "update"
  /\ accountsTbl' = UpdateBalance(del[s].acc,
                                  DeleteBalance(del[s].tx.type, del[s].bal, del[s].tx.amount), ok)
  /\ adj' = IF ok /\ del[s].acc \in DOMAIN accountsTbl
            THEN [adj EXCEPT ![del[s].tx.id].d = @ + 1] ELSE adj
  /\ rounded' = (rounded \/ Inexact(del[s].tx.type # "income", del[s].bal, del[s].tx.amount))
  /\ del' = [del EXCEPT ![s].pc = "remove"]
  /\ clobbered' = (clobbered \/ (/\ ok /\ del[s].acc \in DOMAIN accountsTbl
                                  /\ \/ HeldByDelete(del[s].acc, s)
                                     \/ sub.pc = "update" /\ sub.account = del[s].acc))
  /\ UNCHANGED <<transactionsTbl, nextTx, addVars, transactions, txFetch, initial, last, trip>>
  /\ UNCHANGED viewVars

\* The delete of the row returns, and fetchTransactions is called.
DeleteRemove(s, ok) ==
  /\ del[s].pc = "remove"
  /\ LET id == del[s].tx.id
         gone == ok /\ id \in DOMAIN transactionsTbl
     IN  /\ transactionsTbl' = IF gone THEN Remove(transactionsTbl, id) ELSE transactionsTbl
         /\ trip' = IF gone /\ id = last.tx /\ sub.pc \notin {"insert", "select", "update"}
                    THEN [last EXCEPT !.after = accountsTbl[last.acc].balance]
                    ELSE IF gone THEN NoTrip ELSE trip
         /\ last' = IF gone THEN NoTrip ELSE last
  /\ del' = [del EXCEPT ![s] = IdleDel]
  /\ txFetch' = TRUE
  /\ UNCHANGED <<accountsTbl, nextTx, addVars, transactions, initial, rounded, clobbered, adj>>
  /\ UNCHANGED viewVars

(***************************************************************************)
(* The inputs of the specifications.                                       *)
(***************************************************************************)
Names == {"", "Cash"}
BalanceTexts == {<<>>, <<"5">>, <<"a">>}
LedgerAmounts == {<<"2">>}
SeqAmounts == {<<"2">>, <<"1", "0">>}
FormAmounts == {<<>>, <<"0">>, <<"5">>, <<"-", "5">>, <<"a">>, <<"5", "a">>, <<" ", "5">>}
Descriptions == {"", "rent"}
DateTexts == {Today, <<>>, <<0>>, <<2026, 2, 30>>}
InsertErrors == {"", "Failed to fetch"}

\* No balance operation is in flight.
OpsQuiet == DelQuiet /\ sub.pc \notin {"insert", "select", "update"}

\* The steps that change the ledger and the balances, for given inputs and
\* call outcomes; serial: the user waits for a balance operation to finish
\* before the next press.  The fields of the form reach the ledger only through
\* the press on submit, which takes them here as its inputs.
LedgerNext(balances, amounts, errs, oks, serial) ==
  \/ \E n \in Names, b \in balances, ok \in oks :
       (serial => OpsQuiet) /\ AccountModal_handleSave(n, b, ok)
  \/ (serial => OpsQuiet) /\ OpenAddTransaction
  \/ \E w \in BOOLEAN, ok \in oks, a \in AccIds \cup {NoAccount} : fetchAccounts(w, ok, a)
  \/ \E a \in AccIds : (serial => OpsQuiet) /\ SetSelectedAccount(a)
  \/ \E ty \in Types, t \in amounts, d \in Descriptions :
       (serial => OpsQuiet) /\ TypeAndSubmit(ty, t, d)
  \/ \E e \in errs : SubmitInsert(e)
  \/ \E ok \in oks : SubmitSelect(ok)
  \/ \E ok \in oks : SubmitUpdate(ok)
  \/ \E ok \in oks : fetchTransactions(ok)
  \/ (serial => OpsQuiet) /\ onRefresh
  \/ \E s \in Slots, t \in transactions : (serial => OpsQuiet) /\ handleDeleteTransaction(s, t)
  \/ \E s \in Slots, ok \in oks : DeleteLookup(s, ok)
  \/ \E s \in Slots, ok \in oks : DeleteSelect(s, ok)
  \/ \E s \in Slots, ok \in oks : DeleteLookup2(s, ok)
  \/ \E s \in Slots, ok \in oks : DeleteUpdate(s, ok)
  \/ \E s \in Slots, ok \in oks : DeleteRemove(s, ok)

\* Every interleaving of the handlers, every remote call succeeding.
Next == LedgerNext({<<"5">>}, LedgerAmounts, {""}, {TRUE}, FALSE)
Spec == Init /\ [][Next]_vars

\* One balance operation at a time, every remote call free to fail.
NextFail == LedgerNext({<<"5">>}, LedgerAmounts, InsertErrors, BOOLEAN, TRUE)
SpecFail == Init /\ [][NextFail]_vars

\* One balance operation at a time, every remote call succeeding.
NextSeq == LedgerNext(BalanceTexts, SeqAmounts, {""}, {TRUE}, TRUE)
SpecSeq == Init /\ [][NextSeq]_vars

\* The add-transaction screen with its text fields typed, on a store that
\* may hold an archived account.  The type and the category stay as mounted.
NextForm ==
  \/ \E ok \in BOOLEAN : AccountModal_handleSave("Cash", <<"5">>, ok)
  \/ OpenAddTransaction
  \/ \E w \in BOOLEAN, ok \in BOOLEAN, a \in AccIds \cup {Archived, NoAccount} :
       fetchAccounts(w, ok, a)
  \/ \E t \in FormAmounts : SetAmount(t)
  \/ \E t \in Descriptions : SetDescription(t)
  \/ \E t \in DateTexts : SetDate(t)
  \/ \E a \in AccIds \cup {Archived} : SetSelectedAccount(a)
  \/ handleSubmit
  \/ \E e \in InsertErrors : SubmitInsert(e)
  \/ \E ok \in BOOLEAN : SubmitSelect(ok)
  \/ \E ok \in BOOLEAN : SubmitUpdate(ok)
SpecForm == InitWith(InitialStores) /\ [][NextForm]_vars

\* The press on submit with the typing of the amount and the description
\* folded in; the type, the account and the category are those of the screen.
PickAndSubmit(amt, desc) ==
  SubmitWith(type, amt, desc, Today, selectedAccount, selectedCategory)

\* The add-transaction screen with its type switched and its account and
\* category picked while the fetches of the lists return in any order.
NextPick ==
  \/ \E ok \in BOOLEAN : AccountModal_handleSave("Cash", <<"5">>, ok)
  \/ OpenAddTransaction
  \/ \E w \in BOOLEAN, ok \in BOOLEAN, a \in AccIds \cup {Archived, NoAccount} :
       fetchAccounts(w, ok, a)
  \/ \E ty \in Types, ok \in BOOLEAN : fetchCategories(ty, ok)
  \/ \E ty \in Types : SetType(ty)
  \/ \E a \in AccIds \cup {Archived} : SetSelectedAccount(a)
  \/ \E c \in CatIds : SetSelectedCategory(c)
  \/ \E t \in LedgerAmounts, d \in Descriptions : PickAndSubmit(t, d)
  \/ \E e \in InsertErrors : SubmitInsert(e)
  \/ \E ok \in BOOLEAN : SubmitSelect(ok)
  \/ \E ok \in BOOLEAN : SubmitUpdate(ok)
SpecPick == InitWith(InitialStores) /\ [][NextPick]_vars

\* Two active accounts, and the ledgers of at most one row on either.
TwoAccounts == (1 :> [balance |-> Num(5), is_active |-> TRUE]) @@
               (2 :> [balance |-> Num(3), is_active |-> TRUE])
FrameLedgers ==
  UNION {[1..k -> [account_id : DOMAIN TwoAccounts, category_id : {NoCategory},
                   amount : {2}, type : Types, date : {Today}]] : k \in 0..1}

\* Creations and deletions on a store of two accounts, one balance
\* operation at a time, every remote call free to fail.
NextFrame ==
  \/ OpsQuiet /\ OpenAddTransaction
  \/ \E w \in BOOLEAN, ok \in BOOLEAN, a \in DOMAIN TwoAccounts \cup {NoAccount} :
       fetchAccounts(w, ok, a)
  \/ \E a \in DOMAIN TwoAccounts : OpsQuiet /\ SetSelectedAccount(a)
  \/ \E ty \in Types : OpsQuiet /\ TypeAndSubmit(ty, <<"2">>, "rent")
  \/ \E e \in InsertErrors : SubmitInsert(e)
  \/ \E ok \in BOOLEAN : SubmitSelect(ok)
  \/ \E ok \in BOOLEAN : SubmitUpdate(ok)
  \/ \E ok \in BOOLEAN : fetchTransactions(ok)
  \/ OpsQuiet /\ onRefresh
  \/ \E s \in Slots, t \in transactions : OpsQuiet /\ handleDeleteTransaction(s, t)
  \/ \E s \in Slots, ok \in BOOLEAN : DeleteLookup(s, ok)
  \/ \E s \in Slots, ok \in BOOLEAN : DeleteSelect(s, ok)
  \/ \E s \in Slots, ok \in BOOLEAN : DeleteLookup2(s, ok)
  \/ \E s \in Slots, ok \in BOOLEAN : DeleteUpdate(s, ok)
  \/ \E s \in Slots, ok \in BOOLEAN : DeleteRemove(s, ok)
InitFrame == LedgerInit({TwoAccounts}, FrameLedgers) /\ ViewIdle
SpecFrame == InitFrame /\ [][NextFrame]_vars

(***************************************************************************)
(* The ledger against the balance.                                         *)
(***************************************************************************)
\* +amount of an income row, -amount of an expense row.
Signed(row) == IF row.type = "income" THEN row.amount ELSE 0 - row.amount

RECURSIVE SumOver(_)
SumOver(ids) == IF ids = {} THEN 0
                ELSE LET t == CHOOSE x \in ids : TRUE
                     IN  Signed(transactionsTbl[t]) + SumOver(ids \ {t})

\* The signed sum of the surviving transactions of account a.
SignedSum(a) == SumOver({t \in DOMAIN transactionsTbl : transactionsTbl[t].account_id = a})

\* A creation has run to its end.
SomeCreated == nextTx > 1 /\ sub.pc = "done"

Moved(bal, delta) == Num(FRound(NumberOf(bal).v + delta))

\* The balance of every account is its initial balance (0 when the text
\* entered for it did not parse) plus the signed sum of its transactions.
Consistent ==
  \A a \in DOMAIN accountsTbl :
    NumberOf(accountsTbl[a].balance) = Num(NumberOf(initial[a]).v + SignedSum(a))

\* The balance write of a creation stores the current balance moved by the
\* signed amount, that of a deletion the current balance moved back by it.
WritesMoveBalance ==
  /\ (sub.pc = "update" /\ sub'.pc = "done") =>
       accountsTbl'[sub.account].balance =
         Moved(accountsTbl[sub.account].balance, Signed(transactionsTbl[sub.tx]))
  /\ \A s \in Slots : (del[s].pc = "update" /\ del'[s].pc = "remove") =>
       accountsTbl'[del[s].acc].balance =
         Moved(accountsTbl[del[s].acc].balance, 0 - Signed(transactionsTbl[del[s].tx.id]))

C2_RoundTripRestores ==
  trip.tx # 0 => NumberOf(trip.after) = NumberOf(trip.before)

\* Every transaction created so far had its creation written to the balance
\* once, and its deletion once if it is gone and not at all if it survives.
ExactlyOnce ==
  \A t \in TxIds : t < nextTx =>
    /\ adj[t].c = 1
    /\ adj[t].d = IF t \in DOMAIN transactionsTbl THEN 0 ELSE 1

\* C3: an adjustment is lost only through interleaved read-modify-write
\* steps: when every adjustment was written once with exact arithmetic and no
\* write fell between another call's read and write, the balance equals the
\* initial balance plus the signed sum; with such an overlap it need not
\* (C3_LostUpdate is reached).
C3_LossOnlyByOverlap ==
  (OpsQuiet /\ ~rounded /\ ExactlyOnce /\ ~clobbered) => Consistent

\* C3's case: two adjustments interleaved, each written once, and the balance
\* is off: the later write overwrote the earlier one.
C3_LostUpdate ==
  OpsQuiet /\ ~rounded /\ ExactlyOnce /\ clobbered /\ ~Consistent

\* C4 as stated: the creation of a transaction is written to the balance of
\* its account exactly once, and so is its deletion.
C4_ExactlyOneAdjustment == OpsQuiet => ExactlyOnce

(***************************************************************************)
(* The failures of handleSubmit's remote calls.                            *)
(***************************************************************************)
\* The balance write of a creation returns as failed.
UpdateFails == sub.pc = "update" /\ sub'.pc = "done" /\ ~sub'.updated

\* A creation ended with its row inserted and its balance write failed.
Diverged ==
  sub.pc = "done" /\ ~sub.updated /\ sub.tx \in DOMAIN transactionsTbl

\* C5: when the insert of handleSubmit went through and the balance write
\* fails, the row stays in the ledger, no balance changes, the three calls are
\* not followed by a retry or a removal of the row, and the handler ends as on
\* success: loading cleared, the screen left, no error set.
C5_FailedWriteEndsAsSuccess ==
  /\ [][UpdateFails =>
          /\ transactionsTbl' = transactionsTbl /\ sub.tx \in DOMAIN transactionsTbl
          /\ accountsTbl' = accountsTbl
          /\ sub'.calls = <<"insert", "select", "update">>
          /\ ~loading' /\ ~mounted' /\ error' = ""]_vars
  /\ [](Diverged => adj[sub.tx].c = 0 /\ ~loading /\ error = "")

\* C5's case: the row of a creation is in the ledger and its balance write
\* failed.
C5_Witness == Diverged /\ adj[sub.tx].c = 0 /\ ~mounted

\* The insert of handleSubmit returns as failed.
InsertFails == sub.pc = "insert" /\ sub'.pc = "failed"

\* C6: when the store rejects the insert, its message is what the screen
\* shows, the insert is the only call handleSubmit issued (no retry, no read
\* and no write of a balance), and the ledger and the balances are unchanged.
C6_RejectedInsertSurfaced ==
  /\ [][InsertFails =>
          /\ sub'.err # "" /\ error' = sub'.err
          /\ ~loading'
          /\ sub'.calls = <<"insert">>
          /\ transactionsTbl' = transactionsTbl /\ accountsTbl' = accountsTbl]_vars
  /\ [](sub.pc = "failed" => sub.calls = <<"insert">>)

\* C6's case: the insert failed with the store's message on the screen.
C6_Witness ==
  sub.pc = "failed" /\ error = "Failed to fetch" /\ sub.calls = <<"insert">>

(***************************************************************************)
(* The validation of handleSubmit.                                         *)
(***************************************************************************)
\* The form holds an amount, a description and an account, and the amount
\* reads as a number above zero.
FormValid ==
  /\ amount # <<>> /\ description # "" /\ selectedAccount # NoAccount
  /\ ParseFloat(amount).k = "num" /\ ParseFloat(amount).v > 0

\* A press on submit that starts the remote calls.
PressAccepted == sub.pc # "insert" /\ sub'.pc = "insert"

\* A press on submit that is turned down.
PressRejected == sub'.pc = "rejected" /\ (sub.pc # "rejected" \/ error' # error)

\* C7: a press on submit starts the remote calls only when no required field
\* is missing and the amount reads as a number above zero; a press that is
\* turned down sets an error message, issues no call and leaves the ledger and
\* the balances as they are.
C7_InvalidFormRejected ==
  /\ [][PressAccepted => FormValid]_vars
  /\ [][PressRejected =>
          /\ ~FormValid /\ error' # "" /\ sub'.calls = <<>>
          /\ transactionsTbl' = transactionsTbl /\ accountsTbl' = accountsTbl]_vars
  /\ [](sub.pc = "rejected" => error # "" /\ sub.calls = <<>> /\ ~loading)

\* C7's case: a press with every field filled in and a negative amount was
\* turned down.
C7_Witness ==
  /\ sub.pc = "rejected" /\ error = "Please enter a valid amount"
  /\ amount = <<"-", "5">> /\ description # "" /\ selectedAccount # NoAccount

\* C8 as stated: handleSubmit issues no remote call for a submission whose
\* date is empty or no calendar date.
C8_MalformedDateRejected == sub.pc = "insert" => DateValid(sub.date)

(***************************************************************************)
(* The category and the account of a stored transaction.                   *)
(***************************************************************************)
\* C9 as stated: every stored transaction with a category has the type of
\* that category.
C9_CategoryTypeMatches ==
  \A t \in DOMAIN transactionsTbl :
    transactionsTbl[t].category_id # NoCategory =>
      categoriesTbl[transactionsTbl[t].category_id].type = transactionsTbl[t].type

\* Account a exists and is active.
IsActive(a) == a \in DOMAIN accountsTbl /\ accountsTbl[a].is_active

\* C10: every transaction handleSubmit inserts, and every balance it reads or
\* writes, belongs to an account that exists and is active; the balance of an
\* inactive account never changes.
C10_OnlyActiveAccounts ==
  /\ [](\A t \in DOMAIN transactionsTbl : IsActive(transactionsTbl[t].account_id))
  /\ [](sub.pc \in {"insert", "select", "update"} => IsActive(sub.account))
  /\ [][\A a \in DOMAIN accountsTbl : IsActive(a) \/ accountsTbl'[a] = accountsTbl[a]]_vars

\* C10's case: a transaction was created while the store holds an inactive
\* account next to an active one.
C10_Witness ==
  /\ Archived \in DOMAIN accountsTbl /\ ~accountsTbl[Archived].is_active
  /\ sub.pc = "done" /\ sub.updated /\ sub.tx \in DOMAIN transactionsTbl

(***************************************************************************)
(* Calendar arithmetic of the Date object.  The clock is the local date    *)
(* and hour; toISOString().split('T')[0] is the date in UTC, tz hours      *)
(* behind the local time.  Daylight saving is left out.                    *)
(***************************************************************************)
PrevDay(d) == IF d[3] > 1 THEN <<d[1], d[2], d[3] - 1>>
              ELSE IF d[2] > 1 THEN <<d[1], d[2] - 1, DaysIn(d[1], d[2] - 1)>>
              ELSE <<d[1] - 1, 12, 31>>

NextDay(d) == IF d[3] < DaysIn(d[1], d[2]) THEN <<d[1], d[2], d[3] + 1>>
              ELSE IF d[2] < 12 THEN <<d[1], d[2] + 1, 1>>
              ELSE <<d[1] + 1, 1, 1>>

\* setDate(getDate() - n)
RECURSIVE MinusDays(_, _)
MinusDays(d, n) == IF n = 0 THEN d ELSE MinusDays(PrevDay(d), n - 1)

\* The order of the date column (and of the texts "yyyy-mm-dd").
DateLE(a, b) ==
  \/ a[1] < b[1]
  \/ a[1] = b[1] /\ a[2] < b[2]
  \/ a[1] = b[1] /\ a[2] = b[2] /\ a[3] <= b[3]

\* toISOString().split('T')[0] of the local date d at the local hour h.
IsoDate(d, h) == IF h - tz < 0 THEN PrevDay(d)
                 ELSE IF h - tz >= 24 THEN NextDay(d)
                 ELSE d

(***************************************************************************)
(* The reports screen.                                                     *)
(***************************************************************************)
Periods == {"week", "month", "year"}

\* getDateRange for the period a call closed over: the two bounds as the
\* query sends them.
getDateRange(period) ==
  [startDate |-> IF period = "week" THEN IsoDate(MinusDays(now.date, 7), now.hour)
                 ELSE IF period = "month" THEN IsoDate(<<now.date[1], now.date[2], 1>>, 0)
                 ELSE IsoDate(<<now.date[1], 1, 1>>, 0),
   endDate   |-> IsoDate(now.date, now.hour)]

\* The ids of the rows the window query returns.
WindowRows(period) ==
  {t \in DOMAIN transactionsTbl :
     /\ DateLE(getDateRange(period).startDate, transactionsTbl[t].date)
     /\ DateLE(transactionsTbl[t].date, getDateRange(period).endDate)}

\* filter(type).reduce((sum, t) => sum + Number(t.amount), 0) over the rows ids,
\* taken in the order of their ids.
RECURSIVE SumAmounts(_, _)
SumAmounts(ids, ty) ==
  IF ids = {} THEN Num(0)
  ELSE LET t == CHOOSE x \in ids : \A y \in ids : y <= x
           rest == SumAmounts(ids \ {t}, ty)
       IN  IF transactionsTbl[t].type = ty
           THEN FAdd(rest, Num(transactionsTbl[t].amount))
           ELSE rest

\* filter((t) => t.type === 'expense' && t.category)
BreakdownRows(ids) ==
  {t \in ids : transactionsTbl[t].type = "expense"
               /\ transactionsTbl[t].category_id # NoCategory}

\* t.category?.name || 'Uncategorized'
CatName(t) == IF transactionsTbl[t].category_id = NoCategory THEN "Uncategorized"
              ELSE transactionsTbl[t].category_id

\* categoryMap after the forEach: the keys in the order they were added, and
\* the amount under each.
RECURSIVE CategoryKeys(_)
CategoryKeys(ids) ==
  IF ids = {} THEN <<>>
  ELSE LET t == CHOOSE x \in ids : \A y \in ids : y <= x
           before == CategoryKeys(ids \ {t})
       IN  IF \E i \in DOMAIN before : before[i] = CatName(t) THEN before
           ELSE Append(before, CatName(t))

RECURSIVE CategoryAmount(_, _)
CategoryAmount(ids, name) ==
  IF ids = {} THEN Num(0)
  ELSE LET t == CHOOSE x \in ids : \A y \in ids : y <= x
           rest == CategoryAmount(ids \ {t}, name)
       IN  IF CatName(t) = name THEN FAdd(rest, Num(transactionsTbl[t].amount)) ELSE rest

\* Quotients are kept to three decimals.
Scale == 10 ^ 3

\* n / d to the nearest whole number, halves away from zero (d > 0).
RoundDiv(n, d) == IF n >= 0 THEN (2 * n + d) \div (2 * d)
                  ELSE 0 - ((2 * (0 - n) + d) \div (2 * d))

\* expense > 0 ? (amount / expense) * 100 : 0, in units of 1/Scale.
Percentage(amt, expense) ==
  IF expense.v > 0 THEN RoundDiv(amt.v * 100 * Scale, expense.v) ELSE 0

\* sort((a, b) => b.amount - a.amount): a stable sort, largest amount first.
RECURSIVE SortByAmount(_)
SortByAmount(q) ==
  IF q = <<>> THEN <<>>
  ELSE LET rest == SortByAmount(Tail(q))
           k == Cardinality({i \in DOMAIN rest : rest[i].amount.v > Head(q).amount.v})
       IN  SubSeq(rest, 1, k) \o <<Head(q)>> \o SubSeq(rest, k + 1, Len(rest))

\* categoryArray
CategoryArray(ids, expense) ==
  LET keys == CategoryKeys(BreakdownRows(ids))
  IN  SortByAmount([i \in DOMAIN keys |->
        [category |-> keys[i],
         amount |-> CategoryAmount(BreakdownRows(ids), keys[i]),
         percentage |-> Percentage(CategoryAmount(BreakdownRows(ids), keys[i]), expense)]])

months == <<"Jan", "Feb", "Mar", "Apr", "May", "Jun", "Jul", "Aug", "Sep", "Oct", "Nov", "Dec">>

\* new Date(t.date).toLocaleDateString('en-US', { month: 'short' }): the text
\* is read as midnight UTC and shown in local time.
MonthOf(d) == months[(IF tz < 0 THEN PrevDay(d) ELSE d)[2]]

\* The ids of the rows the year query returns: no upper bound on the date.
YearRows ==
  {t \in DOMAIN transactionsTbl :
     DateLE(IsoDate(<<now.date[1], 1, 1>>, 0), transactionsTbl[t].date)}

\* monthlyMap[month].income and .expense after the forEach; every type other
\* than 'income' counts as expense.
MonthSum(m, ty) ==
  SumAmounts({t \in YearRows : MonthOf(transactionsTbl[t].date) = m}, ty)

\* monthlyArray
MonthlyArray ==
  [i \in DOMAIN months |->
     [month |-> months[i], income |-> MonthSum(months[i], "income"),
      expense |-> MonthSum(months[i], "expense")]]

\* const netAmount = totalIncome - totalExpense
netAmount == FSub(totalIncome, totalExpense)

\* x.toFixed(1) of the quotient n / d: a text, given by its value in tenths.
ToFixed1(n, d) == [k |-> "text", v |-> RoundDiv(n * 10, d)]

\* The rate computed without the test of totalIncome: a division by zero
\* gives NaN (0 / 0) or an infinity, shown as such.
savingsRate_unguarded ==
  IF totalIncome.v = 0 THEN NaN ELSE ToFixed1(netAmount.v * 100, totalIncome.v)

\* totalIncome > 0 ? ((netAmount / totalIncome) * 100).toFixed(1) : 0
savingsRate ==
  IF totalIncome.v > 0 THEN ToFixed1(netAmount.v * 100, totalIncome.v) ELSE Num(0)

\* A press on a period button; the effect runs fetchReportData again when the
\* period changed.
SetSelectedPeriod(p) ==
  /\ p # selectedPeriod /\ Cardinality(rep) < MaxRep
  /\ selectedPeriod' = p
  /\ rep' = rep \cup {[pc |-> "window", period |-> p]}
  /\ UNCHANGED <<totalIncome, totalExpense, categorySpending, monthlyData, repLoading, shown>>
  /\ UNCHANGED exceptReports

\* The window query of the fetchReportData call c returns.
ReportWindow(c, ok) ==
  /\ c \in rep /\ c.pc = "window"
  /\ IF ok
     THEN LET ids == WindowRows(c.period)
              expense == SumAmounts(ids, "expense")
          IN  /\ totalIncome' = SumAmounts(ids, "income")
              /\ totalExpense' = expense
              /\ categorySpending' = CategoryArray(ids, expense)
              /\ shown' = [shown EXCEPT !.period = c.period]
     ELSE UNCHANGED <<totalIncome, totalExpense, categorySpending, shown>>
  /\ IF c.period = "year"
     THEN /\ rep' = (rep \ {c}) \cup {[c EXCEPT !.pc = "year"]}
          /\ UNCHANGED repLoading
     ELSE /\ rep' = rep \ {c}
          /\ repLoading' = FALSE
  /\ UNCHANGED <<selectedPeriod, monthlyData>>
  /\ UNCHANGED exceptReports

\* The twelve entries when the year query brought nothing.
EmptyMonths == [i \in DOMAIN months |-> [month |-> months[i], income |-> Num(0), expense |-> Num(0)]]

\* The year query of the fetchReportData call c returns.
ReportYear(c, ok) ==
  /\ c \in rep /\ c.pc = "year"
  /\ monthlyData' = IF ok THEN MonthlyArray ELSE EmptyMonths
  /\ shown' = [shown EXCEPT !.monthly = IF ok THEN "ok" ELSE "failed"]
  /\ rep' = rep \ {c}
  /\ repLoading' = FALSE
  /\ UNCHANGED <<selectedPeriod, totalIncome, totalExpense, categorySpending>>
  /\ UNCHANGED exceptReports

NextReports ==
  \/ \E p \in Periods : SetSelectedPeriod(p)
  \/ \E c \in rep, ok \in BOOLEAN : ReportWindow(c, ok)
  \/ \E c \in rep, ok \in BOOLEAN : ReportYear(c, ok)

\* The rows a ledger can hold: handleSubmit stores any positive amount, any
\* calendar date and any category or none.
LedgerRows(amounts, cats, dates) ==
  [account_id : {1}, category_id : cats, amount : amounts, type : Types, date : dates]

\* The ledgers of at most n such rows.
Ledgers(rows, n) == UNION {[1..k -> rows] : k \in 0..n}

OneAccount == 1 :> [balance |-> Num(0), is_active |-> TRUE]

\* The reports tab as mounted, its effect having started the first
\* fetchReportData, over one of the given ledgers, clocks and time zones.
InitReports(ledgers, clocks, zones) ==
  /\ LedgerInit({OneAccount}, ledgers)
  /\ now \in clocks /\ tz \in zones
  /\ selectedPeriod = "month"
  /\ totalIncome = Num(0) /\ totalExpense = Num(0)
  /\ categorySpending = <<>> /\ monthlyData = <<>>
  /\ repLoading = TRUE
  /\ rep = {[pc |-> "window", period |-> "month"]}
  /\ shown = NothingShown
  /\ BudgetsIdle
  /\ AuthIdle

ReportAmounts == {1, 2, 3}
ReportDates == {Today, <<2026, 3, 1>>}
WindowDates == {<<2025, 12, 31>>, <<2026, 1, 1>>, <<2026, 2, 28>>, <<2026, 3, 1>>,
                <<2026, 10, 25>>, <<2026, 10, 26>>, <<2026, 10, 31>>, <<2026, 11, 1>>,
                Today, <<2026, 11, 3>>, <<2027, 3, 5>>}
Clocks == {[date |-> Today, hour |-> 10], [date |-> <<2026, 11, 1>>, hour |-> 2]}
Zones == {0 - 5, 0, 6}

\* The reports screen over ledgers that differ in amounts, types and
\* categories, with the clock at ten in the morning in UTC.
SpecReports ==
  /\ InitReports(Ledgers(LedgerRows(ReportAmounts, CatIds \cup {NoCategory}, ReportDates), MaxRows),
                 {[date |-> Today, hour |-> 10]}, {0})
  /\ [][NextReports]_vars

\* The reports screen over ledgers that differ in dates, under several
\* clocks and time zones.
SpecWindow ==
  /\ InitReports(Ledgers(LedgerRows({1}, {NoCategory}, WindowDates), MaxRows), Clocks, Zones)
  /\ [][NextReports]_vars

(***************************************************************************)
(* The budgets screen.                                                     *)
(***************************************************************************)
BudgetPeriods == {"weekly", "monthly", "yearly"}

\* getDay(): 0 for Sunday to 6 for Saturday.
getDay(d) ==
  LET m == IF d[2] < 3 THEN d[2] + 12 ELSE d[2]
      y == IF d[2] < 3 THEN d[1] - 1 ELSE d[1]
      h == (d[3] + ((13 * (m + 1)) \div 5) + (y % 100) + ((y % 100) \div 4)
            + ((y \div 100) \div 4) + 5 * (y \div 100)) % 7
  IN  (h + 6) % 7

\* startDate of a budget of the given period, as the query sends it.
BudgetStart(period) ==
  IF period = "weekly" THEN IsoDate(MinusDays(now.date, getDay(now.date)), now.hour)
  ELSE IF period = "monthly" THEN IsoDate(<<now.date[1], now.date[2], 1>>, 0)
  ELSE IsoDate(<<now.date[1], 1, 1>>, 0)

\* The ids of the rows the spent query of budget b returns.
SpentRows(b) ==
  {t \in DOMAIN transactionsTbl :
     /\ transactionsTbl[t].category_id = b.category_id
     /\ transactionsTbl[t].type = "expense"
     /\ DateLE(BudgetStart(b.period), transactionsTbl[t].date)}

\* transactions?.reduce((sum, t) => sum + Number(t.amount), 0) || 0
Spent(b, ok) == IF ok THEN SumAmounts(SpentRows(b), "expense") ELSE Num(0)

\* A press on the add button of the modal (disabled without a category or an
\* amount text) and the insert it issues; a row with a NaN amount is refused
\* by the store (amount is NOT NULL).  On success fetchBudgets is called.
handleAddBudget(cat, amt, period, ok) ==
  /\ cat # NoCategory /\ amt # <<>>
  /\ nextBudget <= MaxBudgets /\ Cardinality(bFetch) < MaxRep
  /\ IF ok /\ ParseFloat(amt).k = "num"
     THEN /\ budgetsTbl' = budgetsTbl @@
               (nextBudget :> [category_id |-> cat, amount |-> ParseFloat(amt).v, period |-> period])
          /\ nextBudget' = nextBudget + 1
          /\ bFetch' = bFetch \cup {[pc |-> "list", rows |-> <<>>]}
     ELSE UNCHANGED <<budgetsTbl, nextBudget, bFetch>>
  /\ UNCHANGED <<budgets, bLoading, spentOk>>
  /\ UNCHANGED exceptBudgets

\* A press on the X of a budget card: the delete, whatever its outcome, is
\* followed by fetchBudgets.
handleDeleteBudget(id, ok) ==
  /\ id \in DOMAIN budgets /\ Cardinality(bFetch) < MaxRep
  /\ budgetsTbl' = IF ok /\ id \in DOMAIN budgetsTbl THEN Remove(budgetsTbl, id) ELSE budgetsTbl
  /\ bFetch' = bFetch \cup {[pc |-> "list", rows |-> <<>>]}
  /\ UNCHANGED <<nextBudget, budgets, bLoading, spentOk>>
  /\ UNCHANGED exceptBudgets

\* Pull to refresh of the budgets screen.
BudgetsRefresh ==
  /\ Cardinality(bFetch) < MaxRep
  /\ bFetch' = bFetch \cup {[pc |-> "list", rows |-> <<>>]}
  /\ UNCHANGED <<budgetsTbl, nextBudget, budgets, bLoading, spentOk>>
  /\ UNCHANGED exceptBudgets

\* The budgets query of the fetchBudgets call c returns.
BudgetsList(c, ok) ==
  /\ c \in bFetch /\ c.pc = "list"
  /\ IF ok
     THEN /\ bFetch' = (bFetch \ {c}) \cup {[pc |-> "spent", rows |-> budgetsTbl]}
          /\ UNCHANGED bLoading
     ELSE /\ bFetch' = bFetch \ {c}
          /\ bLoading' = FALSE
  /\ UNCHANGED <<budgetsTbl, nextBudget, budgets, spentOk>>
  /\ UNCHANGED exceptBudgets

\* The spent queries of the fetchBudgets call c have all returned, those of
\* the budgets in failed without data.
BudgetsSpent(c, failed) ==
  /\ c \in bFetch /\ c.pc = "spent"
  /\ failed \subseteq DOMAIN c.rows
  /\ budgets' = [id \in DOMAIN c.rows |->
                   [category_id |-> c.rows[id].category_id, amount |-> c.rows[id].amount,
                    period |-> c.rows[id].period, spent |-> Spent(c.rows[id], id \notin failed)]]
  /\ spentOk' = DOMAIN c.rows \ failed
  /\ bLoading' = FALSE
  /\ bFetch' = bFetch \ {c}
  /\ UNCHANGED <<budgetsTbl, nextBudget>>
  /\ UNCHANGED exceptBudgets

\* A percentage is the quotient n / d (d > 0), or NaN.
Pct(n, d) == [k |-> "num", n |-> n, d |-> d]
PctNaN == [k |-> "nan", n |-> 0, d |-> 1]

\* percentage >= x
PctGE(p, x) == p.k = "num" /\ p.n >= x * p.d

\* Math.min((spent / budget) * 100, 100)
getProgressPercentage(spent, budget) ==
  IF budget = 0
  THEN IF spent = 0 THEN PctNaN ELSE Pct(100, 1)
  ELSE LET n == IF budget > 0 THEN spent * 100 ELSE 0 - spent * 100
           d == Abs(budget)
       IN  IF n >= 100 * d THEN Pct(100, 1) ELSE Pct(n, d)

\* getProgressColor
getProgressColor(percentage) ==
  IF PctGE(percentage, 100) THEN "#EF4444"
  ELSE IF PctGE(percentage, 80) THEN "#F59E0B"
  ELSE "#10B981"

\* The text of the warning badge, "" when the card shows none.
BadgeText(percentage) ==
  IF PctGE(percentage, 80)
  THEN IF PctGE(percentage, 100) THEN "Budget exceeded" ELSE "Almost there"
  ELSE ""

BudgetTexts == {<<"0">>, <<"5">>, <<"-", "5">>, <<"a">>}

\* The steps of the budgets screen, for given amount texts and call outcomes.
BudgetsNext(texts, oks) ==
  \/ \E cat \in {c \in CatIds : categoriesTbl[c].type = "expense"}, amt \in texts,
        per \in BudgetPeriods, ok \in oks : handleAddBudget(cat, amt, per, ok)
  \/ \E id \in DOMAIN budgets, ok \in oks : handleDeleteBudget(id, ok)
  \/ BudgetsRefresh
  \/ \E c \in bFetch, ok \in oks : BudgetsList(c, ok)
  \/ \E c \in bFetch, failed \in SUBSET (1..MaxBudgets) :
       (FALSE \in oks \/ failed = {}) /\ BudgetsSpent(c, failed)

NextBudgets == BudgetsNext(BudgetTexts, BOOLEAN)
NextBudgetWindow == BudgetsNext({<<"5">>}, {TRUE})

\* The budgets tab as mounted, its effect having started the first
\* fetchBudgets, over one of the given ledgers, clocks and time zones.
InitBudgets(ledgers, clocks, zones) ==
  /\ LedgerInit({OneAccount}, ledgers)
  /\ now \in clocks /\ tz \in zones
  /\ ReportsIdle
  /\ budgetsTbl = <<>> /\ nextBudget = 1
  /\ budgets = <<>>
  /\ bLoading = TRUE
  /\ bFetch = {[pc |-> "list", rows |-> <<>>]}
  /\ spentOk = {}
  /\ AuthIdle

SpentAmounts == {1, 4}
BudgetDates == {<<2025, 12, 31>>, <<2026, 1, 1>>, <<2026, 10, 26>>, <<2026, 10, 28>>,
                <<2026, 10, 31>>, <<2026, 11, 1>>, Today, <<2026, 11, 3>>}

\* The budgets screen over ledgers that differ in amounts, types and
\* categories, with the clock at ten in the morning in UTC.
SpecBudgets ==
  /\ InitBudgets(Ledgers(LedgerRows(SpentAmounts, {"Food & Dining"}, {Today}), MaxRows),
                 {[date |-> Today, hour |-> 10]}, {0})
  /\ [][NextBudgets]_vars

\* The budgets screen over ledgers of expenses that differ in dates, under
\* several clocks and time zones.
SpecBudgetWindow ==
  /\ InitBudgets(Ledgers([account_id : {1}, category_id : {"Food & Dining"}, amount : {1},
                          type : {"expense"}, date : BudgetDates], MaxRows), Clocks, Zones)
  /\ [][NextBudgetWindow]_vars

(***************************************************************************)
(* Signing up: the sign-up screen and signUp of the auth context.          *)
(***************************************************************************)
FullNames == {"", "Ann", "Bob"}
Emails == {"", "ann@x.io", "bob@x.io"}
Passwords == {<<>>, <<"1", "2", "3", "4", "5">>, <<"s", "e", "c", "r", "e", "t">>}
MinPassword == 6

\* defaultCategories
defaultCategories ==
  << [name |-> "Salary", type |-> "income", icon |-> "briefcase", color |-> "#10B981", is_system |-> TRUE],
     [name |-> "Freelance", type |-> "income", icon |-> "laptop", color |-> "#3B82F6", is_system |-> TRUE],
     [name |-> "Food & Dining", type |-> "expense", icon |-> "utensils", color |-> "#EF4444", is_system |-> TRUE],
     [name |-> "Transportation", type |-> "expense", icon |-> "car", color |-> "#F59E0B", is_system |-> TRUE],
     [name |-> "Shopping", type |-> "expense", icon |-> "shopping-bag", color |-> "#8B5CF6", is_system |-> TRUE],
     [name |-> "Entertainment", type |-> "expense", icon |-> "film", color |-> "#EC4899", is_system |-> TRUE],
     [name |-> "Bills & Utilities", type |-> "expense", icon |-> "receipt", color |-> "#6366F1", is_system |-> TRUE],
     [name |-> "Healthcare", type |-> "expense", icon |-> "heart", color |-> "#14B8A6", is_system |-> TRUE] >>

\* The rows with is_system left to the default of the table.
SeedRows_default(user) ==
  [i \in DOMAIN defaultCategories |->
     [user_id |-> user,
      name |-> defaultCategories[i].name,
      type |-> defaultCategories[i].type,
      icon |-> defaultCategories[i].icon,
      color |-> defaultCategories[i].color,
      is_system |-> FALSE]]

\* The rows signUp sends to the categories table for the identity user.
SeedRows(user) ==
  [i \in DOMAIN defaultCategories |->
     [user_id |-> user,
      name |-> defaultCategories[i].name,
      type |-> defaultCategories[i].type,
      icon |-> defaultCategories[i].icon,
      color |-> defaultCategories[i].color,
      is_system |-> defaultCategories[i].is_system]]

\* What signUp hands back were it to report a failed seeding insert.
signUpResult_seeding(authError, profile, cats) ==
  IF authError # "none" THEN authError
  ELSE IF profile = "failed" \/ cats = "failed" THEN "seeding failed"
  ELSE "none"

\* return { error }: the error of auth.signUp; the outcomes of the two
\* inserts are not looked at.
signUpResult(authError, profile, cats) == authError

Registered(email) == \E u \in DOMAIN authUsers : authUsers[u] = email
IdentityOf(email) == CHOOSE u \in DOMAIN authUsers : authUsers[u] = email
HasProfile(user) == \E i \in DOMAIN profilesTbl : profilesTbl[i].id = user

\* The entry of the log for a call that got the identity user.
CallOf(user, created) ==
  [user |-> user, created |-> created, fullName |-> su.fullName,
   profile |-> "none", cats |-> "none",
   profileCalls |-> 0, catCalls |-> 0, returned |-> "pending"]

\* The test were signUp to seed only an identity that has no profile yet.
ShouldSeed_guarded(authError, user) ==
  authError = "none" /\ user # 0 /\ ~HasProfile(user)

\* if (!error && data.user): the one test before the two inserts.
ShouldSeed(authError, user) == authError = "none" /\ user # 0

\* handleSignUp up to the call of signUp, with the three fields as typed.
handleSignUp(fullName, email, password) ==
  /\ route = "sign-up" /\ su.pc = "idle" /\ ~su.loading
  /\ su' = IF fullName = "" \/ email = "" \/ password = <<>>
             THEN [su EXCEPT !.fullName = fullName, !.email = email, !.password = password,
                             !.error = "Please fill in all fields"]
           ELSE IF Len(password) < MinPassword
             THEN [su EXCEPT !.fullName = fullName, !.email = email, !.password = password,
                             !.error = "Password must be at least 6 characters"]
           ELSE [su EXCEPT !.fullName = fullName, !.email = email, !.password = password,
                           !.loading = TRUE, !.error = "", !.pc = "auth",
                           !.user = 0, !.authError = "none", !.call = 0]
  /\ UNCHANGED <<authUsers, profilesTbl, ownedCategories, route, seedLog>>
  /\ UNCHANGED exceptAuth

\* supabase.auth.signUp returns: a new identity, or an error (here an
\* error for an e-mail that has an identity).
AuthSignUp(ok) ==
  /\ su.pc = "auth"
  /\ IF ok /\ ~Registered(su.email)
       THEN LET id == Cardinality(DOMAIN authUsers) + 1
            IN  /\ authUsers' = authUsers @@ (id :> su.email)
                /\ su' = [su EXCEPT !.user = id, !.call = Len(seedLog) + 1,
                                    !.pc = IF ShouldSeed("none", id) THEN "profile" ELSE "return"]
                /\ seedLog' = Append(seedLog, CallOf(id, TRUE))
       ELSE /\ su' = [su EXCEPT !.pc = "return",
                                !.authError = IF Registered(su.email)
                                                THEN "User already registered"
                                                ELSE "Network request failed"]
            /\ UNCHANGED <<authUsers, seedLog>>
  /\ UNCHANGED <<profilesTbl, ownedCategories, route>>
  /\ UNCHANGED exceptAuth

\* supabase.auth.signUp returns the identity that the e-mail already has,
\* with no error: signUp goes on as for a new identity.
AuthSignUpExisting ==
  /\ su.pc = "auth"
  /\ Registered(su.email)
  /\ Len(seedLog) < MaxSignUps
  /\ su' = [su EXCEPT !.user = IdentityOf(su.email), !.call = Len(seedLog) + 1,
                      !.pc = IF ShouldSeed("none", IdentityOf(su.email))
                               THEN "profile" ELSE "return"]
  /\ seedLog' = Append(seedLog, CallOf(IdentityOf(su.email), FALSE))
  /\ UNCHANGED <<authUsers, profilesTbl, ownedCategories, route>>
  /\ UNCHANGED exceptAuth

\* The store takes a profile row unless one with the same id exists.
ProfileLands(ok, user) == ok /\ ~HasProfile(user)

\* The store takes category rows whose user_id has a profile; no column but
\* the generated id is unique.
SeedLands(ok, user) == ok /\ HasProfile(user)

\* The insert into profiles returns. signUp does not look at the result.
ProfileInsert(ok) ==
  /\ su.pc = "profile"
  /\ LET lands == ProfileLands(ok, su.user)
     IN  /\ profilesTbl' = IF lands
                             THEN Append(profilesTbl, [id |-> su.user, full_name |-> su.fullName,
                                                       currency |-> "USD"])
                             ELSE profilesTbl
         /\ seedLog' = [seedLog EXCEPT ![su.call].profile = IF lands THEN "ok" ELSE "failed",
                                       ![su.call].profileCalls = @ + 1]
  /\ su' = [su EXCEPT !.pc = "categories"]
  /\ UNCHANGED <<authUsers, ownedCategories, route>>
  /\ UNCHANGED exceptAuth

\* The insert of the default categories returns. signUp does not look at
\* the result.
CategoriesInsert(ok) ==
  /\ su.pc = "categories"
  /\ LET lands == SeedLands(ok, su.user)
     IN  /\ ownedCategories' = IF lands THEN ownedCategories \o SeedRows(su.user)
                               ELSE ownedCategories
         /\ seedLog' = [seedLog EXCEPT ![su.call].cats = IF lands THEN "ok" ELSE "failed",
                                       ![su.call].catCalls = @ + 1]
  /\ su' = [su EXCEPT !.pc = "return"]
  /\ UNCHANGED <<authUsers, profilesTbl, route>>
  /\ UNCHANGED exceptAuth

\* signUp returns to handleSignUp, which shows the error or goes to the tabs.
SignUpReturn ==
  /\ su.pc = "return"
  /\ LET profile == IF su.call = 0 THEN "none" ELSE seedLog[su.call].profile
         cats == IF su.call = 0 THEN "none" ELSE seedLog[su.call].cats
         result == signUpResult(su.authError, profile, cats)
     IN  /\ su' = [su EXCEPT !.pc = "idle", !.loading = FALSE,
                             !.error = IF result # "none" THEN result ELSE @]
         /\ route' = IF result # "none" THEN route ELSE "tabs"
         /\ seedLog' = IF su.call = 0 THEN seedLog
                       ELSE [seedLog EXCEPT ![su.call].returned = result]
  /\ UNCHANGED <<authUsers, profilesTbl, ownedCategories>>
  /\ UNCHANGED exceptAuth

\* handleSignOut of the settings tab, and the link of the sign-in screen to
\* a newly mounted sign-up screen.
handleSignOut ==
  /\ route = "tabs"
  /\ route' = "sign-up"
  /\ su' = SignUpState
  /\ UNCHANGED <<authUsers, profilesTbl, ownedCategories, seedLog>>
  /\ UNCHANGED exceptAuth

NextSignUp ==
  \/ \E f \in FullNames, e \in Emails, p \in Passwords : handleSignUp(f, e, p)
  \/ \E ok \in BOOLEAN : AuthSignUp(ok)
  \/ AuthSignUpExisting
  \/ \E ok \in BOOLEAN : ProfileInsert(ok)
  \/ \E ok \in BOOLEAN : CategoriesInsert(ok)
  \/ SignUpReturn
  \/ handleSignOut

\* Sign-ups on one device, one after the other; every remote call may fail.
SpecSignUp ==
  /\ InitWith({OneAccount})
  /\ [][NextSignUp]_vars

(***************************************************************************)
(* The owner's categories: the settings tab and the policies of the table. *)
(***************************************************************************)
CategoryNames == {"", "Pets"}

\* The signed-in identity while the tabs are shown (0: none).
SessionUser == IF route = "tabs" THEN su.user ELSE 0

RemoveAt(rows, i) == SubSeq(rows, 1, i - 1) \o SubSeq(rows, i + 1, Len(rows))
CreatedBy(user) ==
  {i \in DOMAIN ownedCategories :
     ownedCategories[i].user_id = user /\ ownedCategories[i].name \in CategoryNames}

\* CategoryModal.handleSave: a category of the user's own, never a system one.
CategoryModal_handleSave(name, ty, ok) ==
  /\ route = "tabs" /\ su.pc = "idle"
  /\ name # ""
  /\ Cardinality(CreatedBy(SessionUser)) < MaxCreated
  /\ ownedCategories' =
       IF ok /\ SessionUser # 0 /\ HasProfile(SessionUser)
         THEN Append(ownedCategories,
                     [user_id |-> SessionUser, name |-> name, type |-> ty, icon |-> "folder",
                      color |-> "#6B7280", is_system |-> FALSE])
         ELSE ownedCategories
  /\ UNCHANGED <<authUsers, profilesTbl, route, su, seedLog>>
  /\ UNCHANGED exceptAuth

\* "Users can delete own categories": USING (auth.uid() = user_id AND
\* is_system = false).
MayDelete(row, uid) == uid # 0 /\ row.user_id = uid /\ row.is_system = FALSE

\* "Users can update own categories": USING and WITH CHECK (auth.uid() =
\* user_id), on the row before and after the change.
MayUpdate(row, patched, uid) == uid # 0 /\ row.user_id = uid /\ patched.user_id = uid

\* A delete request of the signed-in owner for the row i; the store removes
\* the row if the policy lets it.
DeleteCategory(i) ==
  /\ route = "tabs" /\ su.pc = "idle"
  /\ i \in DOMAIN ownedCategories
  /\ MayDelete(ownedCategories[i], SessionUser)
  /\ ownedCategories' = RemoveAt(ownedCategories, i)
  /\ UNCHANGED <<authUsers, profilesTbl, route, su, seedLog>>
  /\ UNCHANGED exceptAuth

\* An update request of the signed-in owner that sets is_system of the row i;
\* the store changes the row if the policy lets it.
UpdateCategory(i, flag) ==
  /\ route = "tabs" /\ su.pc = "idle"
  /\ i \in DOMAIN ownedCategories
  /\ ownedCategories[i].is_system # flag
  /\ MayUpdate(ownedCategories[i], [ownedCategories[i] EXCEPT !.is_system = flag], SessionUser)
  /\ ownedCategories' = [ownedCategories EXCEPT ![i].is_system = flag]
  /\ UNCHANGED <<authUsers, profilesTbl, route, su, seedLog>>
  /\ UNCHANGED exceptAuth

NextCategories ==
  \/ handleSignUp("Ann", "ann@x.io", <<"s", "e", "c", "r", "e", "t">>)
  \/ \E ok \in BOOLEAN : AuthSignUp(ok)
  \/ \E ok \in BOOLEAN : ProfileInsert(ok)
  \/ \E ok \in BOOLEAN : CategoriesInsert(ok)
  \/ SignUpReturn
  \/ handleSignOut
  \/ \E name \in CategoryNames, ty \in Types, ok \in BOOLEAN :
       CategoryModal_handleSave(name, ty, ok)
  \/ \E i \in DOMAIN ownedCategories : DeleteCategory(i)
  \/ \E i \in DOMAIN ownedCategories, flag \in BOOLEAN : UpdateCategory(i, flag)

\* One owner's sign-up and the owner's requests on the categories table.
SpecCategories ==
  /\ InitWith({OneAccount})
  /\ [][NextCategories]_vars

(***************************************************************************)
(* The figures of the reports screen.                                      *)
(***************************************************************************)
\* The exact sum of the amounts of the rows ids of type ty.
RECURSIVE Total(_, _)
Total(ids, ty) ==
  IF ids = {} THEN 0
  ELSE LET t == CHOOSE x \in ids : TRUE
       IN  (IF transactionsTbl[t].type = ty THEN transactionsTbl[t].amount ELSE 0)
           + Total(ids \ {t}, ty)

\* The totals of some fetchReportData call are on screen.
TotalsShown == shown.period # "none"

\* net is totalIncome minus totalExpense.
NetIsDifference ==
  netAmount.k = "num" /\ netAmount.v = totalIncome.v - totalExpense.v

\* C11 as stated: net is totalIncome minus totalExpense; savingsRate is 0
\* when totalIncome is 0 and net / totalIncome * 100 otherwise.
C11_SavingsRateIsQuotient ==
  /\ NetIsDifference
  /\ totalIncome.v = 0 => savingsRate = Num(0)
  /\ totalIncome.v # 0 =>
       /\ savingsRate.k \in {"num", "text"}
       /\ savingsRate.v * totalIncome.v = netAmount.v * 100 * 10

\* C11 as amended: net is totalIncome minus totalExpense; savingsRate is the
\* number 0 when totalIncome is 0, and otherwise the text of
\* net / totalIncome * 100 rounded to one decimal.
C11_SavingsRateIsRoundedQuotient ==
  /\ NetIsDifference
  /\ totalIncome.v = 0 => savingsRate = Num(0)
  /\ totalIncome.v # 0 =>
       /\ savingsRate.k = "text"
       /\ 2 * Abs(savingsRate.v * totalIncome.v - netAmount.v * 100 * 10) <= totalIncome.v

\* C11's case: the window holds expenses and no income.
C11_Witness == TotalsShown /\ totalIncome.v = 0 /\ totalExpense.v > 0

\* The sum of the percentages of the breakdown, in units of 1/Scale.
RECURSIVE SumPercentages(_)
SumPercentages(q) == IF q = <<>> THEN 0 ELSE Head(q).percentage + SumPercentages(Tail(q))

\* The sum of the amounts of the breakdown.
RECURSIVE SumGroups(_)
SumGroups(q) == IF q = <<>> THEN 0 ELSE Head(q).amount.v + SumGroups(Tail(q))

\* C12 as stated: the percentages of the breakdown sum to 100, up to the
\* rounding of each, when totalExpense > 0, and to 0 when the window holds no
\* expense.
C12_PercentagesSumTo100 ==
  TotalsShown =>
    IF totalExpense.v > 0
    THEN Abs(SumPercentages(categorySpending) - 100 * Scale) <= Len(categorySpending)
    ELSE SumPercentages(categorySpending) = 0

\* C13 as stated: the breakdown counts the expenses of the window only, those
\* without a category under "Uncategorized", so that the amounts of the groups
\* add up to totalExpense.
C13_UncategorizedGrouped ==
  TotalsShown =>
    LET ids == {t \in WindowRows(shown.period) : transactionsTbl[t].type = "expense"}
    IN  /\ SumGroups(categorySpending) = Total(ids, "expense")
        /\ SumGroups(categorySpending) = totalExpense.v
        /\ (\E t \in ids : transactionsTbl[t].category_id = NoCategory) =>
             \E i \in DOMAIN categorySpending :
               /\ categorySpending[i].category = "Uncategorized"
               /\ categorySpending[i].amount.v =
                    Total({t \in ids : transactionsTbl[t].category_id = NoCategory}, "expense")

\* The window of C14: from the start of the period to today, both included.
StatedStart(period) ==
  IF period = "week" THEN MinusDays(now.date, 7)
  ELSE IF period = "month" THEN <<now.date[1], now.date[2], 1>>
  ELSE <<now.date[1], 1, 1>>

StatedWindow(period) ==
  {t \in DOMAIN transactionsTbl :
     DateLE(StatedStart(period), transactionsTbl[t].date) /\ DateLE(transactionsTbl[t].date, now.date)}

\* C14 as stated: the totals are those of exactly the transactions dated from
\* the start of the period (today minus 7 days, the first of the month,
\* January 1) to today.
C14_TotalsOfStatedWindow ==
  TotalsShown =>
    /\ totalIncome.v = Total(StatedWindow(shown.period), "income")
    /\ totalExpense.v = Total(StatedWindow(shown.period), "expense")

\* The rows dated in month i of this year.
RowsOfMonth(i) ==
  {t \in DOMAIN transactionsTbl :
     transactionsTbl[t].date[1] = now.date[1] /\ transactionsTbl[t].date[2] = i}

\* C15 as stated: in year view the monthly array has the twelve months in
\* order, each with the income and the expense of exactly the transactions
\* dated in that month of this year.
C15_TwelveMonthBuckets ==
  shown.monthly = "ok" =>
    /\ Len(monthlyData) = 12
    /\ \A i \in 1..12 :
         /\ monthlyData[i].month = months[i]
         /\ monthlyData[i].income.v = Total(RowsOfMonth(i), "income")
         /\ monthlyData[i].expense.v = Total(RowsOfMonth(i), "expense")

(***************************************************************************)
(* The figures of the budgets screen.                                      *)
(***************************************************************************)
\* The percentage of the card of budget id.
CardPercentage(id) == getProgressPercentage(budgets[id].spent.v, budgets[id].amount)

\* C16 as stated: for every budget on screen the percentage is a number that
\* never exceeds 100 and is exactly 100 whenever spent >= amount.
C16_PercentageClamped ==
  \A id \in DOMAIN budgets :
    /\ CardPercentage(id).k = "num"
    /\ CardPercentage(id).n <= 100 * CardPercentage(id).d
    /\ budgets[id].spent.v >= budgets[id].amount => CardPercentage(id) = Pct(100, 1)

\* The status a card shows: by its colour, with the badge that goes with it;
\* "mixed" when the two disagree.
CardStatus(id) ==
  LET colour == getProgressColor(CardPercentage(id))
      badge == BadgeText(CardPercentage(id))
  IN  IF colour = "#EF4444" /\ badge = "Budget exceeded" THEN "exceeded"
      ELSE IF colour = "#F59E0B" /\ badge = "Almost there" THEN "warning"
      ELSE IF colour = "#10B981" /\ badge = "" THEN "ok"
      ELSE "mixed"

\* C17 as stated: the status is 'exceeded' iff spent >= amount, 'warning' iff
\* 0.8 * amount <= spent < amount, and 'ok' otherwise.
C17_StatusByThresholds ==
  \A id \in DOMAIN budgets :
    CardStatus(id) =
      IF budgets[id].spent.v >= budgets[id].amount THEN "exceeded"
      ELSE IF 8 * budgets[id].amount <= 10 * budgets[id].spent.v THEN "warning"
      ELSE "ok"

\* The report period that corresponds to a budget period.
ReportPeriod(period) == IF period = "weekly" THEN "week"
                        ELSE IF period = "monthly" THEN "month" ELSE "year"

\* C18 as stated: a budget's period starts where the report window of the
\* corresponding period starts, and its spent is the expense total of its
\* category in that window.
C18_BudgetWindowIsReportWindow ==
  \A id \in DOMAIN budgets \cap spentOk :
    /\ BudgetStart(budgets[id].period) =
         getDateRange(ReportPeriod(budgets[id].period)).startDate
    /\ budgets[id].spent.v =
         Total({t \in WindowRows(ReportPeriod(budgets[id].period)) :
                  transactionsTbl[t].category_id = budgets[id].category_id}, "expense")

(***************************************************************************)
(* What signing up leaves in the store.                                    *)
(***************************************************************************)
ProfilesOf(u) == {i \in DOMAIN profilesTbl : profilesTbl[i].id = u}
CategoriesOf(u) == {i \in DOMAIN ownedCategories : ownedCategories[i].user_id = u}
NamedOf(u, name, ty) ==
  {i \in CategoriesOf(u) : ownedCategories[i].name = name /\ ownedCategories[i].type = ty}

\* The eight categories of the provisioning rule.
StatedCategories ==
  {<<"Salary", "income">>, <<"Freelance", "income">>,
   <<"Food & Dining", "expense">>, <<"Transportation", "expense">>,
   <<"Shopping", "expense">>, <<"Entertainment", "expense">>,
   <<"Bills & Utilities", "expense">>, <<"Healthcare", "expense">>}

\* The signUp calls that created their identity and went through both
\* inserts, and those of which an insert failed.
Seeded ==
  {k \in DOMAIN seedLog :
     seedLog[k].created /\ seedLog[k].profile = "ok" /\ seedLog[k].cats = "ok"}
SeedingFailed ==
  {k \in DOMAIN seedLog :
     seedLog[k].created /\ (seedLog[k].profile = "failed" \/ seedLog[k].cats = "failed")}

\* C19: after a signUp whose identity creation and two inserts succeeded, the
\* owner has exactly one profile, with the name given and currency 'USD', and
\* exactly eight categories, all system ones: one of each stated name and type.
C19_SeededOnceWithEight ==
  \A k \in Seeded :
    su.call = k =>
      LET u == seedLog[k].user
      IN  /\ Cardinality(ProfilesOf(u)) = 1
          /\ \A i \in ProfilesOf(u) :
               /\ profilesTbl[i].full_name = seedLog[k].fullName
               /\ profilesTbl[i].currency = "USD"
          /\ Cardinality(CategoriesOf(u)) = 8
          /\ \A i \in CategoriesOf(u) : ownedCategories[i].is_system
          /\ \A c \in StatedCategories : Cardinality(NamedOf(u, c[1], c[2])) = 1

\* A signUp has returned after seeding its identity, and the tabs are shown.
C19_Witness ==
  \E k \in Seeded :
    /\ seedLog[k].returned = "none"
    /\ su.call = k /\ su.pc = "idle" /\ route = "tabs"

\* C20: when the identity was created and the profile insert or the category
\* insert failed, each insert was sent once only, the identity stays, the
\* user has no category when signUp returns, and signUp returns no error, so
\* that handleSignUp goes on to the tabs with no message.
C20_FailedSeedingIsSilent ==
  /\ [](\A k \in SeedingFailed :
         /\ seedLog[k].user \in DOMAIN authUsers
         /\ seedLog[k].profileCalls <= 1 /\ seedLog[k].catCalls <= 1
         /\ su.call = k => CategoriesOf(seedLog[k].user) = {}
         /\ seedLog[k].returned \in {"pending", "none"})
  /\ [][\A k \in SeedingFailed :
          (su.call = k /\ su.pc = "return") => (route' = "tabs" /\ su'.error = "")]_vars

\* A signUp whose category insert failed has returned, and the tabs are shown.
C20_Witness ==
  \E k \in SeedingFailed :
    /\ seedLog[k].returned = "none"
    /\ seedLog[k].profileCalls = 1 /\ seedLog[k].catCalls = 1
    /\ su.call = k /\ su.pc = "idle" /\ route = "tabs"

\* The signUp calls for the identity u whose category insert landed.
SeedingsOf(u) == {k \in DOMAIN seedLog : seedLog[k].user = u /\ seedLog[k].cats = "ok"}

\* C21: every signUp call that got an identity, a new one or not, has sent
\* both inserts by the time it returns; and when the seeding has run twice
\* for one owner, the owner has two copies of each of the eight system
\* categories, sixteen rows in all.
C21_TwiceSeedsSixteen ==
  /\ \A k \in DOMAIN seedLog :
       seedLog[k].returned # "pending" =>
         seedLog[k].profileCalls = 1 /\ seedLog[k].catCalls = 1
  /\ \A u \in DOMAIN authUsers :
       Cardinality(SeedingsOf(u)) = 2 =>
         /\ Cardinality(CategoriesOf(u)) = 16
         /\ \A i \in CategoriesOf(u) : ownedCategories[i].is_system
         /\ \A c \in StatedCategories : Cardinality(NamedOf(u, c[1], c[2])) = 2

\* Two signUp calls have seeded the same identity and the second has returned.
C21_Witness ==
  \E u \in DOMAIN authUsers :
    /\ Cardinality(SeedingsOf(u)) = 2
    /\ su.user = u /\ su.pc = "idle" /\ route = "tabs"

\* C22 as stated: in every state each category seeded for a user at signup
\* is still in the table, whatever the owner has asked the store to do.
C22_SeededCategoriesStay ==
  \A u \in DOMAIN authUsers :
    \A c \in StatedCategories :
      Cardinality(NamedOf(u, c[1], c[2])) >= Cardinality(SeedingsOf(u))

(***************************************************************************)
(* The steps of one handleDeleteTransaction.                               *)
(***************************************************************************)
\* C23 as stated: in each handleDeleteTransaction call the balance is read,
\* then the adjusted balance is written, and the delete of the row is sent
\* only once that write has returned (for a row that is in the table); a row
\* leaves the table only through that delete.
C23_ReadWriteThenRemove ==
  [][/\ \A s \in Slots :
          /\ (del[s].pc # "update" /\ del'[s].pc = "update") =>
               del[s].pc = "lookup2" /\ del[s].bal # Undefined
          /\ (/\ del[s].pc # "remove" /\ del'[s].pc = "remove"
               /\ del[s].tx.id \in DOMAIN transactionsTbl) => del[s].pc = "update"
     /\ DOMAIN transactionsTbl' # DOMAIN transactionsTbl /\ nextTx' = nextTx =>
          \E s \in Slots : del[s].pc = "remove" /\ del'[s].pc = "idle"]_vars

\* C24 as stated: with operations run one at a time and every call
\* succeeding, whenever no operation is in flight the stored balance of each
\* account minus the signed sum of its surviving transactions is the balance
\* the account was created with.
C24_DifferenceIsInitial == OpsQuiet => Consistent

\* Every transaction created so far had its creation written to the balance
\* once.
CreationsOnce == \A t \in TxIds : t < nextTx => adj[t].c = 1

\* C25 as stated: however the calls of two handleDeleteTransaction
\* invocations for one transaction interleave, the balance is moved back by
\* the transaction's amount once: with every creation written once, exact
\* arithmetic and no write between another call's read and write, the
\* balance is the initial balance plus the signed sum of the surviving rows.
C25_TwoTapsAdjustOnce ==
  (OpsQuiet /\ ~rounded /\ CreationsOnce /\ ~clobbered) => Consistent

\* C26 as stated: a transaction is gone from the ledger only if its inverse
\* adjustment was written to the balance; when the lookup of the account gave
\* no data or the balance write failed, the row stays.
C26_RemovedOnlyIfAdjusted ==
  \A t \in TxIds : (t < nextTx /\ t \notin DOMAIN transactionsTbl) => adj[t].d >= 1

\* C27 as stated: the stored balance of every account is a number in every
\* state, also after a handleSubmit whose read of the balance failed or gave
\* no row.
C27_BalanceIsNumber ==
  \A a \in DOMAIN accountsTbl : accountsTbl[a].balance.k = "num"

(***************************************************************************)
(* What a creation and a deletion leave alone.                             *)
(***************************************************************************)
\* The account of the row t of the ledger (none when the row is gone).
AccountOf(t) == IF t \in DOMAIN transactionsTbl THEN transactionsTbl[t].account_id
                ELSE NoAccount

\* The step is the return of the balance write of the creation on account a,
\* or of a deletion of a row of account a.
WritesBalanceOf(a) ==
  \/ sub.pc = "update" /\ sub'.pc = "done" /\ AccountOf(sub.tx) = a
  \/ \E s \in Slots :
       del[s].pc = "update" /\ del'[s].pc = "remove" /\ AccountOf(del[s].tx.id) = a

\* C28: a step changes the balance of an account only if it is the balance
\* write of a creation or deletion of a transaction of that account, and it
\* changes no other account and no row of the ledger; a row leaves the ledger
\* only by the delete of a handleDeleteTransaction called for it, a row
\* enters it only by the insert of handleSubmit, and no row is ever changed.
C28_OnlyTheReferencedAccount ==
  [][/\ \A a \in DOMAIN accountsTbl :
          accountsTbl'[a] # accountsTbl[a] =>
            /\ WritesBalanceOf(a)
            /\ \A b \in DOMAIN accountsTbl \ {a} : accountsTbl'[b] = accountsTbl[b]
            /\ transactionsTbl' = transactionsTbl
     /\ DOMAIN accountsTbl' = DOMAIN accountsTbl
     /\ \A t \in DOMAIN transactionsTbl :
          IF t \in DOMAIN transactionsTbl'
          THEN transactionsTbl'[t] = transactionsTbl[t]
          ELSE /\ \E s \in Slots :
                    del[s].pc = "remove" /\ del'[s].pc = "idle" /\ del[s].tx.id = t
               /\ DOMAIN transactionsTbl' = DOMAIN transactionsTbl \ {t}
     /\ \A t \in DOMAIN transactionsTbl' \ DOMAIN transactionsTbl :
          /\ sub.pc = "insert" /\ sub'.tx = t
          /\ transactionsTbl'[t].account_id = sub.account
          /\ DOMAIN transactionsTbl' = DOMAIN transactionsTbl \cup {t}]_vars

\* C28's case: a transaction was created on one account and one deleted from
\* it while the other account has a row, and the other account's balance is
\* the one it started with.
C28_Witness ==
  /\ OpsQuiet
  /\ \E t \in TxIds : adj[t].c = 1
  /\ \E t \in TxIds : adj[t].d = 1
  /\ \E a \in DOMAIN accountsTbl :
       /\ accountsTbl[a].balance = initial[a]
       /\ \E t \in DOMAIN transactionsTbl : transactionsTbl[t].account_id = a
       /\ \E b \in DOMAIN accountsTbl \ {a} : accountsTbl[b].balance # initial[b]

(***************************************************************************)
(* One submission at a time on the add-transaction screen.                 *)
(***************************************************************************)
\* The handleSubmit call of the screen is between its first await and its end.
InFlight == sub.pc \in {"insert", "select", "update"}

\* A press on the submit button has run handleSubmit up to its first await
\* or to its early return.
Pressed == sub' # sub /\ sub'.pc \in {"insert", "rejected"} /\ sub'.calls = <<>>

\* C29: loading is true exactly while the handleSubmit call of the screen is
\* in flight, and false after each of its exits; no press runs handleSubmit
\* while loading is true; and one submission sends at most one insert, one
\* read and one write of the balance, the ledger growing by one row at the
\* insert of the call in flight only.
C29_OneSubmitInFlight ==
  /\ [](InFlight <=> loading)
  /\ [](sub.pc \in {"rejected", "failed", "done"} => ~loading)
  /\ [](sub.calls \in {<<>>, <<"insert">>, <<"insert", "select">>,
                       <<"insert", "select", "update">>})
  /\ [][Pressed => ~loading /\ ~InFlight]_vars
  /\ [][nextTx' # nextTx => sub.pc = "insert" /\ sub'.calls = <<"insert">>
                            /\ nextTx' = nextTx + 1]_vars

\* C29's case: a second submission is in flight on a reopened screen, with
\* the button disabled, after the first has finished.
C29_Witness ==
  /\ sub.pc = "update" /\ loading /\ mounted
  /\ nextTx = MaxTx + 1

(***************************************************************************)
(* The reports screen when the period is switched during a fetch.          *)
(***************************************************************************)
\* C30 as stated: once no fetchReportData call is in flight, the totals and
\* the breakdown on the screen are those of the period that is selected.
C30_ShownIsSelectedPeriod ==
  rep = {} =>
    LET ids == WindowRows(selectedPeriod)
    IN  /\ totalIncome = SumAmounts(ids, "income")
        /\ totalExpense = SumAmounts(ids, "expense")
        /\ categorySpending = CategoryArray(ids, SumAmounts(ids, "expense"))

====
